---- MODULE Spec2Model ----
(***************************************************************************)
(* A model of src/app.py: the Streamlit dashboard "Digital Transactions &  *)
(* Viksit Bharat 2047".  The script loads a CSV of UPI transactions,       *)
(* aggregates it per sender state (load_data, memoised by st.cache_data),  *)
(* and renders one of seven pages on every rerun.                          *)
(*                                                                         *)
(* Text is modelled as sequences of one-character strings, so that         *)
(* strip/lower/replace and substring containment are computed.  A missing  *)
(* CSV cell (pandas NaN) is the value NA.  Floating-point ratios are       *)
(* modelled as exact rationals [num, den]; a division by zero gives the    *)
(* IEEE results inf / nan that numpy produces instead of raising.          *)
(***************************************************************************)
EXTENDS Integers, Sequences, FiniteSets, TLC

VARIABLES
    csv,            \* the file upi_transactions_2024.csv: [header, rows]
    lastRead,       \* the file content seen by the last pd.read_csv
    cache,          \* the st.cache_data entry of load_data()
    state_summary,  \* module-level state_summary of the current run
    err,            \* the exception that stopped the current run, if any
    view,           \* what the selected page rendered in the current run
    ran,            \* TRUE when the state is the end of a script run
    header,         \* column resolution alone: the raw column names
    cols,           \* column resolution alone: df.columns after lines 60-71
    q,              \* AI Policy Assistant: the text input
    response        \* AI Policy Assistant: the message shown

vars == <<csv, lastRead, cache, state_summary, err, view, ran,
          header, cols, q, response>>

loadVars  == <<csv, lastRead, cache, state_summary, err, view, ran>>
colVars   == <<header, cols>>
queryVars == <<q, response>>

----------------------------------------------------------------------------
(* Bounds of the model *)

MaxRows == 2          \* rows of the CSV in Spec
MaxSchemaRows == 1    \* rows of the CSV in SpecSchema
MaxCacheRows == 1     \* rows of the CSV in SpecCache
MaxOutlookRows == 2   \* rows of the CSV in SpecOutlook
MaxCols == 3          \* columns of the header in SpecCols
MaxPieces == 2        \* pieces a query is concatenated from in SpecQuery
MaxRegions == 11      \* regions of the aggregate collection in SpecConc

----------------------------------------------------------------------------
(* Text *)

UpperChars == <<"A","B","C","D","E","F","G","H","I","J","K","L","M",
                "N","O","P","Q","R","S","T","U","V","W","X","Y","Z">>
LowerChars == <<"a","b","c","d","e","f","g","h","i","j","k","l","m",
                "n","o","p","q","r","s","t","u","v","w","x","y","z">>

\* str.lower() on one character
LowerChar(c) ==
    IF \E i \in 1..Len(UpperChars) : UpperChars[i] = c
    THEN LowerChars[CHOOSE i \in 1..Len(UpperChars) : UpperChars[i] = c]
    ELSE c

\* str.lower()
Lower(s) == [i \in 1..Len(s) |-> LowerChar(s[i])]

\* str.strip(): drop leading and trailing blanks
RECURSIVE LStrip(_)
LStrip(s) == IF s # <<>> /\ Head(s) = " " THEN LStrip(Tail(s)) ELSE s

RECURSIVE RStrip(_)
RStrip(s) ==
    IF s # <<>> /\ s[Len(s)] = " " THEN RStrip(SubSeq(s, 1, Len(s) - 1)) ELSE s

Strip(s) == RStrip(LStrip(s))

\* str.replace(" ", "_")
ReplaceSpace(s) == [i \in 1..Len(s) |-> IF s[i] = " " THEN "_" ELSE s[i]]

\* Python's  needle in hay
Contains(hay, needle) ==
    \E i \in 1..(Len(hay) - Len(needle) + 1) :
        SubSeq(hay, i, i + Len(needle) - 1) = needle

----------------------------------------------------------------------------
(* load_data, lines 60-71: column normalisation and the amount column *)

AMOUNT     == <<"a","m","o","u","n","t">>
AMOUNT_INR == <<"a","m","o","u","n","t","_","i","n","r">>
SENDER_STATE == <<"s","e","n","d","e","r","_","s","t","a","t","e">>
TRANSACTION_ID ==
    <<"t","r","a","n","s","a","c","t","i","o","n","_","i","d">>
FRAUD_FLAG == <<"f","r","a","u","d","_","f","l","a","g">>

\* df.columns.astype(str).str.strip().str.lower().str.replace(" ", "_")
NormalizeName(c) == ReplaceSpace(Lower(Strip(c)))

NormalizeColumns(h) == [i \in 1..Len(h) |-> NormalizeName(h[i])]

\* the index of the first column whose name contains "amount", 0 if none
FirstAmount(cs) ==
    IF \E i \in 1..Len(cs) : Contains(cs[i], AMOUNT)
    THEN CHOOSE i \in 1..Len(cs) :
            /\ Contains(cs[i], AMOUNT)
            /\ \A j \in 1..(i - 1) : ~Contains(cs[j], AMOUNT)
    ELSE 0

\* a plausible slip: a looser match, "am" instead of "amount"
RenameAmount_Loose(cs) ==
    IF \E i \in 1..Len(cs) : Contains(cs[i], <<"a","m">>)
    THEN LET k == CHOOSE i \in 1..Len(cs) :
                    /\ Contains(cs[i], <<"a","m">>)
                    /\ \A j \in 1..(i - 1) : ~Contains(cs[j], <<"a","m">>)
         IN  [i \in 1..Len(cs) |-> IF cs[i] = cs[k] THEN AMOUNT_INR ELSE cs[i]]
    ELSE cs

\* for c in df.columns: if "amount" in c: df.rename(columns={c: ...}); break
\* rename() maps a label, so every column carrying the label c is renamed
RenameAmount(cs) ==
    LET k == FirstAmount(cs)
    IN  IF k = 0 THEN cs
        ELSE [i \in 1..Len(cs) |-> IF cs[i] = cs[k] THEN AMOUNT_INR ELSE cs[i]]

ResolveColumns(h) == RenameAmount(NormalizeColumns(h))

----------------------------------------------------------------------------
(* Numbers *)

\* a float ratio a / b kept exact; b = 0 gives numpy's inf (a # 0) or nan
Div(a, b) == [num |-> a, den |-> b]
Times(r, k) == [num |-> r.num * k, den |-> r.den]
IsNaN(r) == r.den = 0 /\ r.num = 0
RZero == [num |-> 0, den |-> 1]
REq(a, b) == ~IsNaN(a) /\ ~IsNaN(b) /\ a.num * b.den = b.num * a.den
RLess(a, b) == ~IsNaN(a) /\ ~IsNaN(b) /\ a.num * b.den < b.num * a.den
RAdd(a, b) ==
    IF a.den = b.den THEN [num |-> a.num + b.num, den |-> a.den]
    ELSE [num |-> a.num * b.den + b.num * a.den, den |-> a.den * b.den]

RECURSIVE SumInt(_)
SumInt(s) == IF s = <<>> THEN 0 ELSE Head(s) + SumInt(Tail(s))

\* Series.sum() of a float column: skipna=True, the empty sum is 0
RECURSIVE SumRat(_)
SumRat(s) ==
    IF s = <<>> THEN RZero
    ELSE IF IsNaN(Head(s)) THEN SumRat(Tail(s))
    ELSE IF Len(s) = 1 THEN Head(s)
    ELSE LET rest == SumRat(Tail(s))
         IN  IF \A i \in 2..Len(s) : IsNaN(s[i]) THEN Head(s)
             ELSE RAdd(Head(s), rest)

----------------------------------------------------------------------------
(* The data frame read by pd.read_csv, line 58 *)

NA == -1              \* an empty numeric cell (NaN)
NoRegion == ""        \* an empty sender_state cell (NaN)

\* the sender states of the model, in the order groupby sorts its keys
RegionOrder == <<"A", "B">>

\* a row holds one cell per column, in header order:
\* <<transaction id, sender_state, amount, fraud_flag>>
Cells == <<{1, NA}, {"A", "B", NoRegion}, {50, 100, NA}, {0, 1}>>

RowKinds ==
    {<<i, s, a, f>> : i \in Cells[1], s \in Cells[2], a \in Cells[3],
                      f \in Cells[4]}

SeqsUpTo(S, n) == UNION {[1..k -> S] : k \in 0..n}

\* the header of the published data set, and one with cosmetic variation
HDataset ==
    << <<"t","r","a","n","s","a","c","t","i","o","n"," ","i","d">>,
       <<"s","e","n","d","e","r","_","s","t","a","t","e">>,
       <<"a","m","o","u","n","t"," ","(","I","N","R",")">>,
       <<"f","r","a","u","d","_","f","l","a","g">> >>
HCosmetic ==
    << <<" ","T","r","a","n","s","a","c","t","i","o","n"," ","I","D">>,
       <<"S","e","n","d","e","r"," ","S","t","a","t","e"," ">>,
       <<"T","x","n"," ","A","m","o","u","n","t">>,
       <<"F","R","A","U","D","_","F","L","A","G">> >>
\* a header in which no name contains "amount"
HNoAmount ==
    << <<"t","r","a","n","s","a","c","t","i","o","n"," ","i","d">>,
       <<"s","e","n","d","e","r","_","s","t","a","t","e">>,
       <<"a","m","t"," ","(","I","N","R",")">>,
       <<"f","r","a","u","d","_","f","l","a","g">> >>

\* the amount column under a name without "amount"
HValue ==
    << <<"t","r","a","n","s","a","c","t","i","o","n"," ","i","d">>,
       <<"s","e","n","d","e","r","_","s","t","a","t","e">>,
       <<"V","a","l","u","e"," ","I","N","R">>,
       <<"f","r","a","u","d","_","f","l","a","g">> >>
\* neither a sender_state nor an amount column
HNoState ==
    << <<"t","r","a","n","s","a","c","t","i","o","n"," ","i","d">>,
       <<"s","t","a","t","e">>,
       <<"a","m","t">>,
       <<"f","r","a","u","d","_","f","l","a","g">> >>

Headers == {HDataset, HCosmetic}
SchemaHeaders == {HDataset, HCosmetic, HNoAmount, HValue, HNoState}

Sources(hs, n) ==
    {[header |-> h, rows |-> r] : h \in hs, r \in SeqsUpTo(RowKinds, n)}

----------------------------------------------------------------------------
(* load_data, lines 73-89: the grouped aggregation and the derived columns *)

CRORE == 10000000
MILLION == 1000000
PERCENT == 100

\* the position of the column labelled name, 0 if there is none
ColIndex(cs, name) ==
    IF \E i \in 1..Len(cs) : cs[i] = name
    THEN CHOOSE i \in 1..Len(cs) : cs[i] = name
    ELSE 0

IsNA(x) == x = NA

\* GroupBy.count(): the number of non-missing values
CountNotNA(s) == Len(SelectSeq(s, LAMBDA x : ~IsNA(x)))

\* GroupBy.sum(): the sum of the non-missing values
SumNotNA(s) == SumInt(SelectSeq(s, LAMBDA x : ~IsNA(x)))

Column(rows, i) == [k \in 1..Len(rows) |-> rows[k][i]]

\* df.groupby("sender_state").agg(...).reset_index().rename(...):
\* one row per distinct non-missing key (dropna=True), keys sorted
GroupAgg(rows, iS, iT, iA, iF) ==
    LET keys == SelectSeq(RegionOrder,
                    LAMBDA r : \E k \in 1..Len(rows) : rows[k][iS] = r)
        grp(r) == SelectSeq(rows, LAMBDA row : row[iS] = r)
    IN  [g \in 1..Len(keys) |->
            [State         |-> keys[g],
             UPI_Volume    |-> CountNotNA(Column(grp(keys[g]), iT)),
             UPI_Value_INR |-> SumNotNA(Column(grp(keys[g]), iA)),
             Fraud_Cases   |-> SumNotNA(Column(grp(keys[g]), iF))]]

\* lines 84-87, computed once all groups are known
Derive(agg) ==
    LET total == SumInt([g \in 1..Len(agg) |-> agg[g].UPI_Volume])
    IN  [g \in 1..Len(agg) |->
            [State             |-> agg[g].State,
             UPI_Volume        |-> agg[g].UPI_Volume,
             UPI_Value_INR     |-> agg[g].UPI_Value_INR,
             Fraud_Cases       |-> agg[g].Fraud_Cases,
             UPI_Value_Crore   |-> Div(agg[g].UPI_Value_INR, CRORE),
             Fraud_per_Million |->
                 Times(Div(agg[g].Fraud_Cases, agg[g].UPI_Volume), MILLION),
             Share_pct         |->
                 Times(Div(agg[g].UPI_Volume, total), PERCENT),
             Avg_Value_per_Txn |->
                 Div(agg[g].UPI_Value_INR, agg[g].UPI_Volume)]]

NoError == [type |-> "none", at |-> "none"]
KeyError(where) == [type |-> "KeyError", at |-> where]

\* the body of load_data on the content of the file
load_data(file) ==
    LET cs == ResolveColumns(file.header)
        iS == ColIndex(cs, SENDER_STATE)
        iT == ColIndex(cs, TRANSACTION_ID)
        iA == ColIndex(cs, AMOUNT_INR)
        iF == ColIndex(cs, FRAUD_FLAG)
    IN  IF iS = 0
        THEN [error |-> KeyError("groupby"), value |-> <<>>]
        ELSE IF iT = 0 \/ iA = 0 \/ iF = 0
        THEN [error |-> KeyError("agg"), value |-> <<>>]
        ELSE [error |-> NoError,
              value |-> Derive(GroupAgg(file.rows, iS, iT, iA, iF))]

----------------------------------------------------------------------------
(* Whole numbers of any size, for the projection: little-endian limbs *)

LimbBase == 100 * 100

RECURSIVE BigOf(_)
BigOf(n) == IF n = 0 THEN <<>> ELSE <<n % LimbBase>> \o BigOf(n \div LimbBase)

\* n * m + carry for a small m
RECURSIVE BigMulAdd(_, _, _)
BigMulAdd(n, m, carry) ==
    IF n = <<>> THEN BigOf(carry)
    ELSE LET t == Head(n) * m + carry
         IN  <<t % LimbBase>> \o BigMulAdd(Tail(n), m, t \div LimbBase)

\* drop the high zero limbs
RECURSIVE BigTrim(_)
BigTrim(n) ==
    IF n # <<>> /\ n[Len(n)] = 0 THEN BigTrim(SubSeq(n, 1, Len(n) - 1)) ELSE n

BigMul(n, m) == BigTrim(BigMulAdd(n, m, 0))

RECURSIVE BigMulPow(_, _, _)
BigMulPow(n, m, k) == IF k = 0 THEN n ELSE BigMulPow(BigMul(n, m), m, k - 1)

\* a + b
RECURSIVE BigAdd(_, _, _)
BigAdd(a, b, carry) ==
    IF a = <<>> /\ b = <<>> THEN BigOf(carry)
    ELSE LET x == IF a = <<>> THEN 0 ELSE Head(a)
             y == IF b = <<>> THEN 0 ELSE Head(b)
             t == x + y + carry
         IN  <<t % LimbBase>> \o
             BigAdd(IF a = <<>> THEN a ELSE Tail(a),
                    IF b = <<>> THEN b ELSE Tail(b), t \div LimbBase)

\* a * b, limb by limb
RECURSIVE BigTimes(_, _)
BigTimes(a, b) ==
    IF a = <<>> THEN <<>>
    ELSE BigTrim(BigAdd(BigMulAdd(b, Head(a), 0),
                        <<0>> \o BigTimes(Tail(a), b), 0))

\* <<n, n*m, n*m^2, ..., n*m^k>>
RECURSIVE BigPowers(_, _, _)
BigPowers(n, m, k) ==
    IF k = 0 THEN <<n>> ELSE <<n>> \o BigPowers(BigMul(n, m), m, k - 1)

RECURSIVE BigLess(_, _)
BigLess(a, b) ==
    IF Len(a) # Len(b) THEN Len(a) < Len(b)
    ELSE IF a = <<>> THEN FALSE
    ELSE IF a[Len(a)] # b[Len(b)] THEN a[Len(a)] < b[Len(b)]
    ELSE BigLess(SubSeq(a, 1, Len(a) - 1), SubSeq(b, 1, Len(b) - 1))

\* a projected value num / 100^dexp
ProjLess(x, y) ==
    LET d == IF x.dexp > y.dexp THEN x.dexp ELSE y.dexp
    IN  BigLess(BigMulPow(x.num, PERCENT, d - x.dexp),
                BigMulPow(y.num, PERCENT, d - y.dexp))

ProjEq(x, y) == ~ProjLess(x, y) /\ ~ProjLess(y, x)

----------------------------------------------------------------------------
(* The pages *)

NoView == [page |-> "none"]

VolumeTotal(summary) ==
    SumInt([g \in 1..Len(summary) |-> summary[g].UPI_Volume])

\* Overview, lines 112-118: the three KPI totals
OverviewPage(summary) ==
    [page |-> "Overview",
     total_transactions |-> VolumeTotal(summary),
     total_value_crore |->
         SumRat([g \in 1..Len(summary) |-> summary[g].UPI_Value_Crore]),
     fraud_cases |->
         SumInt([g \in 1..Len(summary) |-> summary[g].Fraud_Cases])]

\* Spatial Analysis, Formalisation, Fraud Risk: the frame is plotted as is
PlotPages == {"Spatial Analysis", "Formalisation", "Fraud Risk"}
PlotPage(p, summary) == [page |-> p, data |-> summary]

TOP10 == 10
TOP5 == 5

\* DataFrame.head(n)
HeadN(s, n) == SubSeq(s, 1, IF Len(s) < n THEN Len(s) ELSE n)

\* a before b in sort_values("Share_%", ascending=False); NaN goes last
ShareBefore(a, b) ==
    \/ ~IsNaN(a.Share_pct) /\ IsNaN(b.Share_pct)
    \/ RLess(b.Share_pct, a.Share_pct)

RECURSIVE InsertRow(_, _)
InsertRow(row, sorted) ==
    IF sorted = <<>> THEN <<row>>
    ELSE IF ShareBefore(row, Head(sorted)) THEN <<row>> \o sorted
    ELSE <<Head(sorted)>> \o InsertRow(row, Tail(sorted))

\* sort_values("Share_%", ascending=False); the order of ties is not fixed
\* by the code and is one the sort may produce
RECURSIVE SortByShare(_)
SortByShare(s) ==
    IF s = <<>> THEN <<>> ELSE InsertRow(Head(s), SortByShare(Tail(s)))

RECURSIVE Reverse(_)
Reverse(s) == IF s = <<>> THEN <<>> ELSE Reverse(Tail(s)) \o <<Head(s)>>

\* a plausible slip: ascending=False forgotten
ConcentrationPage_Ascending(summary) ==
    LET top10 == HeadN(Reverse(SortByShare(summary)), TOP10)
    IN  [page |-> "Concentration",
         top10 |-> top10,
         top5_share |->
             SumRat([i \in 1..Len(HeadN(top10, TOP5)) |-> top10[i].Share_pct])]

\* Concentration, lines 142-147
ConcentrationPage(summary) ==
    LET top10 == HeadN(SortByShare(summary), TOP10)
    IN  [page |-> "Concentration",
         top10 |-> top10,
         top5_share |->
             SumRat([i \in 1..Len(HeadN(top10, TOP5)) |-> top10[i].Share_pct])]

GROWTH_MIN == 5
GROWTH_MAX == 20
GROWTH_DEFAULT == 12
BASE_YEAR == 2024
TARGET_YEAR == 2047
SCALE_FACTOR == 1000000

\* list(range(BASE_YEAR, TARGET_YEAR + 1))
years_list == [i \in 1..(TARGET_YEAR + 1 - BASE_YEAR) |-> BASE_YEAR + i - 1]

base_volume(summary) == VolumeTotal(summary) * SCALE_FACTOR

YEARS == TARGET_YEAR - BASE_YEAR

\* (100 + growth) ** k for every growth of the slider and every k, computed
\* once: GrowthPower[growth - GROWTH_MIN + 1][k + 1]
RECURSIVE GrowthPowersFrom(_)
GrowthPowersFrom(growth) ==
    IF growth > GROWTH_MAX THEN <<>>
    ELSE <<BigPowers(<<1>>, PERCENT + growth, YEARS + 1)>> \o
         GrowthPowersFrom(growth + 1)

GrowthPower == GrowthPowersFrom(GROWTH_MIN)

\* (1 + growth / 100) ** k  as  num / 100^k
Compound(growth, k) ==
    [num |-> GrowthPower[growth - GROWTH_MIN + 1][k + 1], dexp |-> k]

\* a plausible slip: compounding starts one year early
ProjectYear_OffByOne(base, growth, y) ==
    LET c == Compound(growth, y - BASE_YEAR + 1)
    IN  [num |-> BigTimes(BigOf(base), c.num), dexp |-> c.dexp]

\* base_volume * ((1 + growth / 100) ** (y - BASE_YEAR))
ProjectYear(base, growth, y) ==
    LET c == Compound(growth, y - BASE_YEAR)
    IN  [num |-> BigTimes(BigOf(base), c.num), dexp |-> c.dexp]

\* 2047 Outlook, lines 179-203
OutlookPage(summary, growth) ==
    LET base == base_volume(summary)
    IN  [page |-> "2047 Outlook",
         growth |-> growth,
         base_volume |-> base,
         Year |-> years_list,
         projection |->
             [i \in 1..Len(years_list) |->
                 ProjectYear(base, growth, years_list[i])]]

----------------------------------------------------------------------------
(* A run of the script: load_data() at line 91, then the selected page *)

NoFile == [header |-> <<>>, rows |-> <<>>]
NotRead == [done |-> FALSE, file |-> NoFile]
EmptyCache == [hit |-> FALSE, value |-> <<>>]

\* @st.cache_data on a function without arguments: one entry, filled by the
\* first call that returns, never invalidated; an exception is not cached
\* the if / elif chain over the sidebar selection, lines 112-223
Render(page, growth, summary) ==
    CASE page = "Overview" -> OverviewPage(summary)
      [] page = "Concentration" -> ConcentrationPage(summary)
      [] page = "2047 Outlook" -> OutlookPage(summary, growth)
      [] OTHER -> PlotPage(page, summary)

Rerun(page, growth) ==
    /\ ran' = TRUE
    /\ csv' = csv
    /\ IF cache.hit
       THEN /\ state_summary' = cache.value
            /\ err' = NoError
            /\ view' = Render(page, growth, cache.value)
            /\ UNCHANGED <<cache, lastRead>>
       ELSE LET r == load_data(csv)
            IN  /\ lastRead' = [done |-> TRUE, file |-> csv]
                /\ IF r.error.type = "none"
                   THEN /\ cache' = [hit |-> TRUE, value |-> r.value]
                        /\ state_summary' = r.value
                        /\ err' = NoError
                        /\ view' = Render(page, growth, r.value)
                   ELSE /\ cache' = cache
                        /\ state_summary' = <<>>
                        /\ err' = r.error
                        /\ view' = NoView
    /\ UNCHANGED <<colVars, queryVars>>

RerunOverview == Rerun("Overview", GROWTH_DEFAULT)

RerunConcentration == Rerun("Concentration", GROWTH_DEFAULT)

RerunPlot(p) == Rerun(p, GROWTH_DEFAULT)

\* the slider is moved and the script reruns
RerunOutlook(growth) == Rerun("2047 Outlook", growth)

\* the file is replaced on disk between two runs
WriteSource(src) ==
    /\ src # csv
    /\ csv' = src
    /\ ran' = FALSE
    /\ UNCHANGED <<lastRead, cache, state_summary, err, view>>
    /\ UNCHANGED <<colVars, queryVars>>

InitLoad(sources) ==
    /\ csv \in sources
    /\ lastRead = NotRead
    /\ cache = EmptyCache
    /\ state_summary = <<>>
    /\ err = NoError
    /\ view = NoView
    /\ ran = FALSE
    /\ header = <<>> /\ cols = <<>>
    /\ q = <<>> /\ response = "none"

\* one load cycle: the file as found, then any reruns
Init == InitLoad(Sources(Headers, MaxRows))
Next ==
    \/ RerunOverview
    \/ RerunConcentration
    \/ \E p \in PlotPages : RerunPlot(p)
Spec == Init /\ [][Next]_vars

\* the 2047 Outlook page; the page reads UPI_Volume alone
OutlookRows == {r \in RowKinds : r[2] # NoRegion /\ r[3] = 50 /\ r[4] = 0}
InitOutlook ==
    InitLoad({[header |-> HDataset, rows |-> r] :
                 r \in SeqsUpTo(OutlookRows, MaxOutlookRows)})
NextOutlook == \E growth \in GROWTH_MIN..GROWTH_MAX : RerunOutlook(growth)
SpecOutlook == InitOutlook /\ [][NextOutlook]_vars

\* reruns interleaved with changes of the file
InitCache == InitLoad(Sources(Headers, MaxCacheRows))
NextCache ==
    \/ RerunOverview
    \/ \E src \in Sources(Headers, MaxCacheRows) : WriteSource(src)
SpecCache == InitCache /\ [][NextCache]_vars

\* the load over headers with and without the required columns
InitSchema == InitLoad(Sources(SchemaHeaders, MaxSchemaRows))
NextSchema == RerunOverview \/ RerunConcentration
SpecSchema == InitSchema /\ [][NextSchema]_vars

----------------------------------------------------------------------------
(* Column resolution on its own: lines 60-71 over many headers *)

RawNames ==
    { <<"A","m","o","u","n","t">>,
      <<"a","m","o","u","n","t">>,
      <<"a","m","o","u","n","t","_","i","n","r">>,
      <<"T","x","n"," ","A","m","o","u","n","t">>,
      <<" ","A","M","O","U","N","T"," ","I","N","R"," ">>,
      <<"S","e","n","d","e","r"," ","S","t","a","t","e">>,
      <<"F","r","a","u","d"," ","F","l","a","g">>,
      <<"a","m","t">> }

\* read_csv hands out distinct raw names (it mangles repeated ones)
RawHeaders ==
    {h \in SeqsUpTo(RawNames, MaxCols) :
        h # <<>> /\ \A i, j \in 1..Len(h) : h[i] = h[j] => i = j}

ReadColumns(h) ==
    /\ header = <<>>
    /\ header' = h
    /\ cols' = ResolveColumns(h)
    /\ UNCHANGED <<loadVars, queryVars>>

InitIdle ==
    /\ csv = NoFile
    /\ lastRead = NotRead
    /\ cache = EmptyCache
    /\ state_summary = <<>>
    /\ err = NoError
    /\ view = NoView
    /\ ran = FALSE
    /\ header = <<>> /\ cols = <<>>
    /\ q = <<>> /\ response = "none"

NextCols == \E h \in RawHeaders : ReadColumns(h)
SpecCols == InitIdle /\ [][NextCols]_vars

----------------------------------------------------------------------------
(* AI Policy Assistant, lines 223-235 *)

FRAUD == <<"f","r","a","u","d">>
Y2047 == <<"2","0","4","7">>
CONCENTRATION == <<"c","o","n","c","e","n","t","r","a","t","i","o","n">>

FraudResponse ==
    "Fraud increases during rapid adoption; policy must pair growth with cyber literacy."
OutlookResponse ==
    "Viksit Bharat 2047 requires inclusive digital infrastructure across all states."
ConcentrationResponse ==
    "High concentration shows uneven regional digital readiness."
FallbackResponse ==
    "Ask about fraud, growth, inclusion, or long-term digital policy."

\* a plausible slip: q.lower() forgotten
AssistantPage_NoLower(text) ==
    IF text = <<>> THEN "none"
    ELSE IF Contains(text, FRAUD) THEN FraudResponse
    ELSE IF Contains(text, Y2047) THEN OutlookResponse
    ELSE IF Contains(text, CONCENTRATION) THEN ConcentrationResponse
    ELSE FallbackResponse

\* if q: q = q.lower(); if / elif / elif / else
AssistantPage(text) ==
    IF text = <<>> THEN "none"
    ELSE LET low == Lower(text)
         IN  IF Contains(low, FRAUD) THEN FraudResponse
             ELSE IF Contains(low, Y2047) THEN OutlookResponse
             ELSE IF Contains(low, CONCENTRATION) THEN ConcentrationResponse
             ELSE FallbackResponse

\* the script reruns with the text of the input box
Ask ==
    /\ ran' = TRUE
    /\ response' = AssistantPage(q)
    /\ UNCHANGED <<q, csv, lastRead, cache, state_summary, err, view>>
    /\ UNCHANGED colVars

Pieces ==
    { <<"f","r","a","u","d">>, <<"F","R","A","U","D">>, <<"F","r","a">>,
      <<"u","d">>, <<"2","0","4","7">>, <<"2","0">>, <<"4","7">>,
      <<"c","o","n","c","e","n","t","r","a","t","i","o","n">>,
      <<"C","o","n","c","e","n">>, <<"t","r","a","t","i","o","n">>,
      <<" ">>, <<"g","r","o","w","t","h","?">> }

RECURSIVE Concat(_)
Concat(ps) == IF ps = <<>> THEN <<>> ELSE Head(ps) \o Concat(Tail(ps))

Queries == {Concat(ps) : ps \in SeqsUpTo(Pieces, MaxPieces)}

\* a text has been typed into the input box
InitQuery ==
    /\ csv = NoFile
    /\ lastRead = NotRead
    /\ cache = EmptyCache
    /\ state_summary = <<>>
    /\ err = NoError
    /\ view = NoView
    /\ ran = FALSE
    /\ header = <<>> /\ cols = <<>>
    /\ q \in Queries /\ response = "none"

NextQuery == Ask
SpecQuery == InitQuery /\ [][NextQuery]_vars

----------------------------------------------------------------------------
(* The Concentration page over larger aggregate collections *)

\* the per-region UPI_Volume of a collection; the last one gives the shares
\* 40, 25, 15, 10, 5, 5
ConcVolumes ==
    SeqsUpTo({1, 3}, MaxRegions) \cup {<<3, 2, 8, 1, 5, 1>>}

\* the frame load_data returns for regions 1..n with these volumes
SummaryOf(vol) ==
    Derive([g \in 1..Len(vol) |->
               [State |-> g, UPI_Volume |-> vol[g],
                UPI_Value_INR |-> 50 * vol[g], Fraud_Cases |-> 0]])

ViewConcentration ==
    /\ view' = ConcentrationPage(state_summary)
    /\ UNCHANGED <<csv, lastRead, cache, state_summary, err, ran>>
    /\ UNCHANGED <<colVars, queryVars>>

InitConc ==
    /\ csv = NoFile
    /\ lastRead = NotRead
    /\ cache = EmptyCache
    /\ state_summary \in {SummaryOf(vol) : vol \in ConcVolumes}
    /\ err = NoError
    /\ view = NoView
    /\ ran = FALSE
    /\ header = <<>> /\ cols = <<>>
    /\ q = <<>> /\ response = "none"

NextConc == ViewConcentration
SpecConc == InitConc /\ [][NextConc]_vars

----------------------------------------------------------------------------
(* What the claims speak of, stated apart from the code above *)

Loaded == ran /\ err.type = "none"

\* the cells of a row of the CSV, by meaning
RegionOf(row) == row[2]
AmountOf(row) == row[3]
FraudOf(row)  == row[4]

RowsOfRegion(region) ==
    {k \in 1..Len(csv.rows) : RegionOf(csv.rows[k]) = region}

AmountAt(k) == IF AmountOf(csv.rows[k]) = NA THEN 0 ELSE AmountOf(csv.rows[k])
FraudAt(k)  == FraudOf(csv.rows[k])

RECURSIVE SumAmounts(_)
SumAmounts(S) ==
    IF S = {} THEN 0
    ELSE LET k == CHOOSE x \in S : TRUE
         IN  AmountAt(k) + SumAmounts(S \ {k})

RECURSIVE SumFrauds(_)
SumFrauds(S) ==
    IF S = {} THEN 0
    ELSE LET k == CHOOSE x \in S : TRUE
         IN  FraudAt(k) + SumFrauds(S \ {k})

Shares(summary) == [g \in 1..Len(summary) |-> summary[g].Share_pct]
Hundred == [num |-> 100, den |-> 1]

\* a row with a missing amount or a missing region
Malformed(row) == RegionOf(row) = NoRegion \/ AmountOf(row) = NA
WellFormedRows == SelectSeq(csv.rows, LAMBDA row : ~Malformed(row))
CleanFile == [header |-> csv.header, rows |-> WellFormedRows]

NoAmountColumn(h) ==
    \A i \in 1..Len(h) : ~Contains(NormalizeName(h[i]), AMOUNT)

----------------------------------------------------------------------------
(* The claims *)

\* C1: for every region in the output of load_data, transaction_count
\* (UPI_Volume) is the number of input rows of that region, total_value
\* (UPI_Value_INR) the sum of their amounts and fraud_count (Fraud_Cases)
\* the sum of their fraud flags.
C1_AggregatesMatchRows ==
    Loaded =>
        \A g \in 1..Len(state_summary) :
            LET r == state_summary[g]
                S == RowsOfRegion(r.State)
            IN  /\ r.UPI_Volume = Cardinality(S)
                /\ r.UPI_Value_INR = SumAmounts(S)
                /\ r.Fraud_Cases = SumFrauds(S)

\* C2: for every input with at least one row, the Share_% values sum to 100
\* over the output regions, and the denominator of the share, the sum of the
\* per-region transaction counts, is never zero.
C2_SharesSumTo100 ==
    (Loaded /\ Len(csv.rows) >= 1) =>
        /\ VolumeTotal(state_summary) # 0
        /\ REq(SumRat(Shares(state_summary)), Hundred)

\* C3: for every region of the output, fraud_count <= transaction_count and
\* transaction_count >= 1, so that no ratio divides by zero.
C3_FraudWithinCount ==
    Loaded =>
        \A g \in 1..Len(state_summary) :
            /\ state_summary[g].Fraud_Cases <= state_summary[g].UPI_Volume
            /\ state_summary[g].UPI_Volume >= 1

\* C9: a row with a missing amount or a missing region is rejected (the load
\* fails) or excluded before aggregation: the aggregates, and the Overview
\* totals, are those of the input without such rows.
C9_MalformedRowsExcluded ==
    ran =>
        \/ err.type # "none"
        \/ /\ state_summary = load_data(CleanFile).value
           /\ view.page = "Overview" =>
                 view = OverviewPage(load_data(CleanFile).value)

\* C5: after any sequence of loads and changes of the source, a load returns
\* the aggregates of the source as it is now, re-reading it when it changed
\* since the last read (never the stale cached aggregates).
C5_LoadFollowsSource ==
    ran =>
        /\ lastRead.done /\ lastRead.file = csv
        /\ err = load_data(csv).error
        /\ state_summary = load_data(csv).value

C7_Projection ==
    view.page = "2047 Outlook" =>
        LET p == view.projection
            n == TARGET_YEAR - BASE_YEAR + 1
            base_total == VolumeTotal(state_summary) * 1000000
        IN  /\ Len(p) = n /\ Len(view.Year) = n
            /\ view.Year[1] = 2024 /\ view.Year[n] = 2047
            /\ \A i \in 1..(n - 1) : view.Year[i + 1] = view.Year[i] + 1
            /\ ProjEq(p[1], [num |-> BigOf(base_total), dexp |-> 0])
            /\ (view.growth > 0 /\ base_total > 0) =>
                  \A i \in 1..(n - 1) : ProjLess(p[i], p[i + 1])

C7_Witness ==
    /\ view.page = "2047 Outlook"
    /\ view.growth = 12
    /\ VolumeTotal(state_summary) = 2
    /\ ProjLess(view.projection[1], view.projection[2])
    /\ ProjLess(view.projection[23], view.projection[24])

\* the sum of the k largest Share_% values among the rows S of summary
RECURSIVE LargestSum(_, _, _)
LargestSum(summary, S, k) ==
    IF k = 0 \/ S = {} THEN RZero
    ELSE LET m == CHOOSE i \in S :
                    \A j \in S :
                        ~RLess(summary[i].Share_pct, summary[j].Share_pct)
         IN  RAdd(summary[m].Share_pct, LargestSum(summary, S \ {m}, k - 1))

\* C8: the Concentration list is the regions sorted by Share_% descending,
\* truncated to at most 10, and the 'Top 5' scalar is the sum of the 5
\* largest Share_% values of the whole collection (of all of them when there
\* are fewer than 5); shares 40, 25, 15, 10, 5, 5 give 95.
C8_Concentration ==
    view.page = "Concentration" =>
        LET t == view.top10
            n == Len(state_summary)
            kept == {t[i].State : i \in 1..Len(t)}
        IN  /\ Len(t) = IF n < 10 THEN n ELSE 10
            /\ \A i \in 1..Len(t) : \E g \in 1..n : t[i] = state_summary[g]
            /\ Cardinality(kept) = Len(t)
            /\ \A i, j \in 1..Len(t) :
                  i < j => ~RLess(t[i].Share_pct, t[j].Share_pct)
            /\ \A g \in 1..n :
                  state_summary[g].State \notin kept =>
                      \A i \in 1..Len(t) :
                          ~RLess(t[i].Share_pct, state_summary[g].Share_pct)
            /\ REq(view.top5_share, LargestSum(state_summary, 1..n, 5))
            /\ [g \in 1..n |-> state_summary[g].UPI_Volume]
                   = <<3, 2, 8, 1, 5, 1>>
               => REq(view.top5_share, [num |-> 95, den |-> 1])

C8_Witness ==
    /\ view.page = "Concentration"
    /\ Len(state_summary) = 11
    /\ Len(view.top10) = 10
    /\ state_summary[1].UPI_Volume = 1
    /\ state_summary[11].UPI_Volume = 3
    /\ view.top10[1].State = 11

\* C4: a non-empty query is lowercased and answered with the canned response
\* of the first of "fraud", "2047", "concentration" that the lowercased text
\* contains, or with the fallback when it contains none; a query containing
\* both "fraud" and "2047" gets the fraud response.
C4_FirstTrigger ==
    (ran /\ q # <<>>) =>
        LET low == Lower(q)
            hasF == Contains(low, FRAUD)
            has2 == Contains(low, Y2047)
            hasC == Contains(low, CONCENTRATION)
        IN  /\ hasF => response = FraudResponse
            /\ (~hasF /\ has2) => response = OutlookResponse
            /\ (~hasF /\ ~has2 /\ hasC) => response = ConcentrationResponse
            /\ (~hasF /\ ~has2 /\ ~hasC) => response = FallbackResponse
            /\ (hasF /\ has2) => response # OutlookResponse

C4_Witness ==
    /\ ran
    /\ q = <<"2","0","4","7">> \o <<"F","R","A","U","D">>
    /\ Contains(Lower(q), FRAUD) /\ Contains(Lower(q), Y2047)
    /\ response = FraudResponse

\* C10: when some normalized name contains "amount", after resolution
\* exactly one column is named amount_inr, it is the first column whose
\* normalized name contains "amount", and every other column keeps its
\* normalized name.
C10_OneAmountColumn ==
    (header # <<>> /\ ~NoAmountColumn(header)) =>
        LET norm == [i \in 1..Len(header) |-> NormalizeName(header[i])]
            first == CHOOSE i \in 1..Len(norm) :
                        /\ Contains(norm[i], AMOUNT)
                        /\ \A j \in 1..(i - 1) : ~Contains(norm[j], AMOUNT)
        IN  /\ {i \in 1..Len(cols) : cols[i] = AMOUNT_INR} = {first}
            /\ \A i \in 1..Len(cols) : i # first => cols[i] = norm[i]

====
